---- MODULE Spec2Model ----
(***************************************************************************)
(* The ProjectClaim CustomResourceAdapter                                  *)
(* (pkg/controller/projectclaim/customresourceadapter.go) against a        *)
(* resource store with optimistic concurrency.  Every adapter holds its    *)
(* own in-memory snapshot of the one ProjectClaim; the store holds the     *)
(* persisted ProjectClaim and its paired ProjectReference.                 *)
(***************************************************************************)
EXTENDS Naturals, Sequences, FiniteSets, TLC

(***************************************************************************)
(* Bounds of the model.                                                    *)
(***************************************************************************)
\* successful writes to the stored claim (its resourceVersion is a counter)
MaxResourceVersion == 3
\* length of the finalizer lists a claim starts with
MaxFinalizers == 2
\* the logical clock metav1.Now() reads
MaxClock == 2
\* length of a namespace or a name
MaxNameLen == 3
\* entries in the bundle directory
MaxVersions == 3

(***************************************************************************)
(* Program constants and input domains.                                    *)
(***************************************************************************)
ProjectClaimFinalizer == "finalizer.gcp.managed.openshift.io"

\* markers other collaborators hold on the same claim
OtherFinalizers == {"other.a", "other.b"}

ObjectModified == TRUE

ObjectUnchanged == FALSE

ClaimStatusEmpty == ""

ClaimStatusPending == "Pending"

ClaimStatusPendingProject == "PendingProject"

\* a phase this adapter does not gate
ClaimStatusReady == "Ready"

ClaimStatuses == {ClaimStatusEmpty, ClaimStatusPending, ClaimStatusPendingProject, ClaimStatusReady}

\* the targets the reconciler passes: the named phases
NamedStatuses == ClaimStatuses \ {ClaimStatusEmpty}

ClaimConditionError == "Error"

\* a condition kind owned by somebody else
ClaimConditionOther == "Other"

ConditionTrue == "True"

ConditionStatuses == {"True", "False", "Unknown"}

Reasons == {"r1", "r2"}

Messages == {"m1"}

ProjectReferenceNamespace == "gcp-project-operator"

\* the concurrent reconciliation invocations for the one claim
Invocations == {1, 2}

\* error values: nil, the store's NotFound / Conflict / AlreadyExists, and
\* any other (transient) store failure
NoError == "nil"

ErrNotFound == "NotFound"

ErrConflict == "Conflict"

ErrAlreadyExists == "AlreadyExists"

ErrTransient == "Transient"

VARIABLES
    storeClaim,              \* the ProjectClaim as persisted
    claimExists,             \* FALSE once the store has removed the claim
    storeRef,                \* the ProjectReference as persisted
    adapter,                 \* per invocation: projectClaim, projectReference
    pc,                      \* per invocation: where it stands
    projectReferenceExists,  \* per invocation: the local of the same name
    ret,                     \* per invocation: the last call and its result
    now,                     \* the clock
    lastFlip,                \* time of the last change of the condition's truth value
    nmClaims,                \* naming: the identities of two claims
    nmRefs,                  \* naming: the references derived from them
    REMOVE_UNDEPLOYED,       \* bundle script: the environment variable
    BUNDLE_DIR,              \* bundle script: the entries of the bundle directory
    DEPLOYED_HASH,           \* bundle script: the hash in production
    versions,                \* bundle script: the words the for loop runs over
    position,                \* bundle script: how many of them it has taken
    delete,                  \* bundle script: the flag of the same name
    REMOVED_VERSIONS,        \* bundle script: the removed versions, last first
    line                     \* bundle script: where the script stands

scriptVars == <<REMOVE_UNDEPLOYED, BUNDLE_DIR, DEPLOYED_HASH, versions, position, delete,
                REMOVED_VERSIONS, line>>

adapterVars == <<storeClaim, claimExists, storeRef, adapter, pc, projectReferenceExists,
                 ret, now, lastFlip, nmClaims, nmRefs>>

vars == <<storeClaim, claimExists, storeRef, adapter, pc, projectReferenceExists,
          ret, now, lastFlip, nmClaims, nmRefs,
          REMOVE_UNDEPLOYED, BUNDLE_DIR, DEPLOYED_HASH, versions, position, delete,
          REMOVED_VERSIONS, line>>

(***************************************************************************)
(* util.Contains and util.Filter, as the adapter calls them.               *)
(***************************************************************************)
RECURSIVE Contains(_, _)
Contains(list, strToSearch) ==
    IF list = <<>> THEN FALSE
    ELSE IF Head(list) = strToSearch THEN TRUE
    ELSE Contains(Tail(list), strToSearch)

RECURSIVE Filter(_, _)
Filter(list, strToFilter) ==
    IF list = <<>> THEN <<>>
    ELSE IF Head(list) # strToFilter
         THEN <<Head(list)>> \o Filter(Tail(list), strToFilter)
         ELSE Filter(Tail(list), strToFilter)

(***************************************************************************)
(* Linked-resource naming.                                                 *)
(***************************************************************************)
newMatchingProjectReference(projectClaim) ==
    [Name              |-> projectClaim.Namespace \o "-" \o projectClaim.Name,
     Namespace         |-> ProjectReferenceNamespace,
     ClaimName         |-> projectClaim.Name,
     ClaimNamespace    |-> projectClaim.Namespace,
     DeletionTimestamp |-> FALSE]

(***************************************************************************)
(* The resource store: get / create / update / updateStatus / delete with  *)
(* optimistic concurrency on the claim's resourceVersion.  `fail' is the   *)
(* store failing for a reason of its own.                                  *)
(***************************************************************************)
ClientGet(fail) ==
    IF fail THEN ErrTransient
    ELSE IF storeRef.exists THEN NoError
    ELSE ErrNotFound

ClientWriteErr(obj, fail) ==
    IF fail THEN ErrTransient
    ELSE IF ~claimExists THEN ErrNotFound
    ELSE IF obj.ResourceVersion # storeClaim.ResourceVersion THEN ErrConflict
    ELSE NoError

\* Update persists metadata and spec; the status is a sub-resource.
UpdatedClaim(obj) ==
    [storeClaim EXCEPT !.Finalizers = obj.Finalizers,
                       !.ProjectReferenceCRLink = obj.ProjectReferenceCRLink,
                       !.ResourceVersion = @ + 1]

StatusUpdatedClaim(obj) ==
    [storeClaim EXCEPT !.State = obj.State,
                       !.ConditionsNil = obj.ConditionsNil,
                       !.Conditions = obj.Conditions,
                       !.ResourceVersion = @ + 1]

\* a claim whose deletion was requested goes once no finalizer holds it
Retained(claim) == ~(claim.DeletionTimestamp /\ claim.Finalizers = <<>>)

\* The outcome of c.client.Update(obj): the error, the stored claim after
\* it, and obj after it (the store's answer is decoded into obj).
ClientUpdate(obj, fail) ==
    LET err == ClientWriteErr(obj, fail) IN
    IF err # NoError
    THEN [err |-> err, store |-> storeClaim, exists |-> claimExists, obj |-> obj]
    ELSE [err |-> NoError, store |-> UpdatedClaim(obj),
          exists |-> Retained(UpdatedClaim(obj)), obj |-> UpdatedClaim(obj)]

ClientStatusUpdate(obj, fail) ==
    LET err == ClientWriteErr(obj, fail) IN
    IF err # NoError
    THEN [err |-> err, store |-> storeClaim, exists |-> claimExists, obj |-> obj]
    ELSE [err |-> NoError, store |-> StatusUpdatedClaim(obj),
          exists |-> claimExists, obj |-> StatusUpdatedClaim(obj)]

ClientCreateErr(fail) ==
    IF fail THEN ErrTransient
    ELSE IF storeRef.exists THEN ErrAlreadyExists
    ELSE NoError

CreatedReference == [exists |-> TRUE, DeletionTimestamp |-> FALSE, Finalizer |-> FALSE]

ClientDeleteErr(fail) ==
    IF fail THEN ErrTransient
    ELSE IF ~storeRef.exists THEN ErrNotFound
    ELSE NoError

\* a reference its own controller still holds is only marked for deletion
DeletedReference ==
    IF storeRef.Finalizer
    THEN [storeRef EXCEPT !.DeletionTimestamp = TRUE]
    ELSE [exists |-> FALSE, DeletionTimestamp |-> FALSE, Finalizer |-> FALSE]

(***************************************************************************)
(* The adapter's operations.  Each is the whole method: from the in-memory *)
(* claim c (and the store as it stands) to the claim afterwards, the store *)
(* afterwards, the returned ObjectState and error, and the store calls it  *)
(* issued.                                                                 *)
(***************************************************************************)
Result(c, store, exists, ref, state, err, calls) ==
    [claim |-> c, store |-> store, exists |-> exists, ref |-> ref,
     state |-> state, err |-> err, calls |-> calls]

\* a return that wrote nothing
Return(c, state, err, calls) ==
    Result(c, storeClaim, claimExists, storeRef, state, err, calls)

IsProjectClaimDeletion(c) == c.DeletionTimestamp

IsProjectReferenceDeletion(projectReference) == projectReference.DeletionTimestamp

\* ProjectReferenceExists handing the store's NotFound on as an error
ProjectReferenceExists_PropagatesNotFound(c, fail) ==
    IF ClientGet(fail) # NoError
    THEN Return(c, FALSE, ClientGet(fail), <<"Get">>)
    ELSE Return(c, TRUE, NoError, <<"Get">>)

\* the bool it answers is the result's state
ProjectReferenceExists(c, fail) ==
    LET err == ClientGet(fail) IN
    IF err # NoError
    THEN IF err = ErrNotFound
         THEN Return(c, FALSE, NoError, <<"Get">>)
         ELSE Return(c, FALSE, err, <<"Get">>)
    ELSE Return(c, TRUE, NoError, <<"Get">>)

\* EnsureFinalizerDeleted cutting the list's last entry, whatever it is
EnsureFinalizerDeleted_DropsLast(c, fail) ==
    LET finalizers == c.Finalizers IN
    IF Contains(finalizers, ProjectClaimFinalizer)
    THEN LET u == ClientUpdate([c EXCEPT !.Finalizers = SubSeq(finalizers, 1, Len(finalizers) - 1)], fail)
         IN Result(u.obj, u.store, u.exists, storeRef, ObjectUnchanged, u.err, <<"Update">>)
    ELSE Return(c, ObjectUnchanged, NoError, <<>>)

EnsureFinalizerDeleted(c, fail) ==
    LET finalizers == c.Finalizers IN
    IF Contains(finalizers, ProjectClaimFinalizer)
    THEN LET u == ClientUpdate([c EXCEPT !.Finalizers = Filter(finalizers, ProjectClaimFinalizer)], fail)
         IN Result(u.obj, u.store, u.exists, storeRef, ObjectUnchanged, u.err, <<"Update">>)
    ELSE Return(c, ObjectUnchanged, NoError, <<>>)

\* FinalizeProjectClaim removing the finalizer in the call that deletes the reference
FinalizeProjectClaim_Eager(c, projectReference, exists, fail) ==
    IF exists /\ ~IsProjectReferenceDeletion(projectReference) /\ ClientDeleteErr(fail) # NoError
    THEN Return(c, ObjectUnchanged, ClientDeleteErr(fail), <<"Get", "Delete">>)
    ELSE LET d == EnsureFinalizerDeleted(c, fail) IN
         [d EXCEPT !.ref = IF exists THEN DeletedReference ELSE storeRef,
                   !.state = (d.err = NoError),
                   !.calls = (IF exists THEN <<"Get", "Delete">> ELSE <<"Get">>) \o d.calls]

\* FinalizeProjectClaim leaving the finalizer where it is
FinalizeProjectClaim_KeepsFinalizer(c, projectReference, exists, fail) ==
    IF exists /\ ClientDeleteErr(fail) # NoError
    THEN Return(c, ObjectUnchanged, ClientDeleteErr(fail), <<"Get", "Delete">>)
    ELSE IF exists
    THEN Result(c, storeClaim, claimExists, DeletedReference,
                ObjectUnchanged, NoError, <<"Get", "Delete">>)
    ELSE Return(c, ObjectUnchanged, NoError, <<"Get">>)

\* FinalizeProjectClaim taking a Delete answered NotFound for "already gone"
FinalizeProjectClaim_ForgivesNotFound(c, projectReference, exists, fail) ==
    IF exists /\ ClientDeleteErr(fail) = ErrTransient
    THEN Return(c, ObjectUnchanged, ErrTransient, <<"Get", "Delete">>)
    ELSE IF exists /\ ClientDeleteErr(fail) = NoError
    THEN Result(c, storeClaim, claimExists, DeletedReference,
                ObjectUnchanged, NoError, <<"Get", "Delete">>)
    ELSE LET d == EnsureFinalizerDeleted(c, fail) IN
         [d EXCEPT !.state = (d.err = NoError),
                   !.calls = (IF exists THEN <<"Get", "Delete">> ELSE <<"Get">>) \o d.calls]

\* FinalizeProjectClaim after its lookup answered `exists'
FinalizeProjectClaim(c, projectReference, exists, fail) ==
    LET projectReferenceDeletionRequested == IsProjectReferenceDeletion(projectReference) IN
    IF exists /\ ~projectReferenceDeletionRequested
    THEN LET err == ClientDeleteErr(fail) IN
         IF err # NoError
         THEN Return(c, ObjectUnchanged, err, <<"Get", "Delete">>)
         ELSE Result(c, storeClaim, claimExists, DeletedReference,
                     ObjectUnchanged, NoError, <<"Get", "Delete">>)
    ELSE IF ~exists
    THEN LET d == EnsureFinalizerDeleted(c, fail) IN
         IF d.err # NoError
         THEN [d EXCEPT !.state = ObjectUnchanged, !.calls = <<"Get">> \o d.calls]
         ELSE [d EXCEPT !.state = ObjectModified, !.calls = <<"Get">> \o d.calls]
    ELSE Return(c, ObjectUnchanged, NoError, <<"Get">>)

\* EnsureFinalizer without the check that the marker is there already
EnsureFinalizer_AlwaysAppends(c, fail) ==
    LET u == ClientUpdate([c EXCEPT !.Finalizers = Append(c.Finalizers, ProjectClaimFinalizer)], fail)
    IN Result(u.obj, u.store, u.exists, storeRef, u.err = NoError, u.err, <<"Update">>)

EnsureFinalizer(c, fail) ==
    IF ~Contains(c.Finalizers, ProjectClaimFinalizer)
    THEN LET u == ClientUpdate([c EXCEPT !.Finalizers = Append(c.Finalizers, ProjectClaimFinalizer)], fail)
         IN IF u.err # NoError
            THEN Result(u.obj, u.store, u.exists, storeRef, ObjectUnchanged, u.err, <<"Update">>)
            ELSE Result(u.obj, u.store, u.exists, storeRef, ObjectModified, NoError, <<"Update">>)
    ELSE Return(c, ObjectUnchanged, NoError, <<>>)

\* EnsureProjectReferenceExists creating whatever its lookup answered
EnsureProjectReferenceExists_AlwaysCreates(c, exists, fail) ==
    LET err == ClientCreateErr(fail) IN
    IF err # NoError
    THEN Return(c, ObjectUnchanged, IF exists THEN NoError ELSE err, <<"Get", "Create">>)
    ELSE Result(c, storeClaim, claimExists, CreatedReference,
                ObjectUnchanged, NoError, <<"Get", "Create">>)

\* EnsureProjectReferenceExists after its lookup answered `exists'
EnsureProjectReferenceExists(c, exists, fail) ==
    IF ~exists
    THEN LET err == ClientCreateErr(fail) IN
         IF err # NoError
         THEN Return(c, ObjectUnchanged, err, <<"Get", "Create">>)
         ELSE Result(c, storeClaim, claimExists, CreatedReference,
                     ObjectUnchanged, NoError, <<"Get", "Create">>)
    ELSE Return(c, ObjectUnchanged, NoError, <<"Get">>)

StatusUpdate(c, fail) ==
    LET u == ClientStatusUpdate(c, fail)
    IN Result(u.obj, u.store, u.exists, storeRef, ObjectUnchanged, u.err, <<"StatusUpdate">>)

\* EnsureProjectClaimState without the guard on the initial phase
EnsureProjectClaimState_Ungated(c, state, fail) ==
    IF c.State = state
    THEN Return(c, ObjectUnchanged, NoError, <<>>)
    ELSE IF state = ClaimStatusPendingProject /\ c.State # ClaimStatusPending
    THEN Return(c, ObjectUnchanged, NoError, <<>>)
    ELSE StatusUpdate([c EXCEPT !.State = state], fail)

EnsureProjectClaimState(c, state, fail) ==
    IF c.State = state
    THEN Return(c, ObjectUnchanged, NoError, <<>>)
    ELSE IF state = ClaimStatusPending /\ c.State # ClaimStatusEmpty
    THEN Return(c, ObjectUnchanged, NoError, <<>>)
    ELSE IF state = ClaimStatusPendingProject /\ c.State # ClaimStatusPending
    THEN Return(c, ObjectUnchanged, NoError, <<>>)
    ELSE StatusUpdate([c EXCEPT !.State = state], fail)

EnsureProjectClaimInitialized(c, fail) ==
    IF c.ConditionsNil
    THEN LET u == ClientStatusUpdate([c EXCEPT !.ConditionsNil = FALSE, !.Conditions = <<>>], fail)
         IN IF u.err # NoError
            THEN Result(u.obj, u.store, u.exists, storeRef, ObjectUnchanged, u.err, <<"StatusUpdate">>)
            ELSE Result(u.obj, u.store, u.exists, storeRef, ObjectModified, NoError, <<"StatusUpdate">>)
    ELSE Return(c, ObjectUnchanged, NoError, <<>>)

\* EnsureProjectReferenceLink filling in only a link that is empty
EnsureProjectReferenceLink_OnlyWhenEmpty(c, projectReference, fail) ==
    IF c.ProjectReferenceCRLink # [Name |-> "", Namespace |-> ""]
    THEN Return(c, ObjectUnchanged, NoError, <<>>)
    ELSE LET u == ClientUpdate([c EXCEPT !.ProjectReferenceCRLink =
                                   [Name |-> projectReference.Name, Namespace |-> projectReference.Namespace]], fail)
         IN Result(u.obj, u.store, u.exists, storeRef, u.err = NoError, u.err, <<"Update">>)

\* EnsureProjectReferenceLink writing the link whether or not it matches
EnsureProjectReferenceLink_AlwaysWrites(c, projectReference, fail) ==
    LET u == ClientUpdate([c EXCEPT !.ProjectReferenceCRLink =
                              [Name |-> projectReference.Name, Namespace |-> projectReference.Namespace]], fail)
    IN Result(u.obj, u.store, u.exists, storeRef, u.err = NoError, u.err, <<"Update">>)

EnsureProjectReferenceLink(c, projectReference, fail) ==
    LET expectedLink == [Name |-> projectReference.Name, Namespace |-> projectReference.Namespace] IN
    IF c.ProjectReferenceCRLink = expectedLink
    THEN Return(c, ObjectUnchanged, NoError, <<>>)
    ELSE LET u == ClientUpdate([c EXCEPT !.ProjectReferenceCRLink = expectedLink], fail)
         IN IF u.err # NoError
            THEN Result(u.obj, u.store, u.exists, storeRef, ObjectUnchanged, u.err, <<"Update">>)
            ELSE Result(u.obj, u.store, u.exists, storeRef, ObjectModified, NoError, <<"Update">>)

\* the index of the first condition of the tracked kind, 0 for nil
RECURSIVE FindFrom(_, _)
FindFrom(conditions, i) ==
    IF i > Len(conditions) THEN 0
    ELSE IF conditions[i].Type = ClaimConditionError THEN i
    ELSE FindFrom(conditions, i + 1)

FindProjectClaimCondition(c) == FindFrom(c.Conditions, 1)

Appended(status, reason, message, time) ==
    [Type |-> ClaimConditionError, Status |-> status, Reason |-> reason, Message |-> message,
     LastTransitionTime |-> time, LastProbeTime |-> time]

\* SetProjectClaimCondition appending whether or not an entry exists
SetProjectClaimCondition_AlwaysAppends(c, status, reason, message, time, fail) ==
    IF status = ConditionTrue
    THEN StatusUpdate([c EXCEPT !.Conditions = Append(@, Appended(status, reason, message, time)),
                                !.ConditionsNil = FALSE], fail)
    ELSE StatusUpdate(c, fail)

\* SetProjectClaimCondition stamping the transition time on every call
SetProjectClaimCondition_AlwaysTransitions(c, status, reason, message, time, fail) ==
    IF FindProjectClaimCondition(c) = 0
    THEN IF status = ConditionTrue
         THEN StatusUpdate([c EXCEPT !.Conditions = Append(@, Appended(status, reason, message, time)),
                                     !.ConditionsNil = FALSE], fail)
         ELSE StatusUpdate(c, fail)
    ELSE StatusUpdate([c EXCEPT !.Conditions[FindProjectClaimCondition(c)] =
                          [Type |-> ClaimConditionError, Status |-> status, Reason |-> reason,
                           Message |-> message, LastTransitionTime |-> time, LastProbeTime |-> time]],
                      fail)

\* SetProjectClaimCondition creating the entry for any truth value
SetProjectClaimCondition_Materialises(c, status, reason, message, time, fail) ==
    IF FindProjectClaimCondition(c) = 0
    THEN StatusUpdate([c EXCEPT !.Conditions = Append(@, Appended(status, reason, message, time)),
                                !.ConditionsNil = FALSE], fail)
    ELSE StatusUpdate([c EXCEPT !.Conditions[FindProjectClaimCondition(c)] =
                          [@ EXCEPT !.LastTransitionTime = IF c.Conditions[FindProjectClaimCondition(c)].Status # status
                                                           THEN time ELSE @,
                                    !.Status = status, !.Reason = reason, !.Message = message,
                                    !.LastProbeTime = time]],
                      fail)

\* `time' is what metav1.Now() answers
SetProjectClaimCondition(c, status, reason, message, time, fail) ==
    LET existingCondition == FindProjectClaimCondition(c)
        appended == Appended(status, reason, message, time)
        updated == [c.Conditions[existingCondition] EXCEPT
                       !.LastTransitionTime = IF c.Conditions[existingCondition].Status # status
                                              THEN time ELSE @,
                       !.Status = status,
                       !.Reason = reason,
                       !.Message = message,
                       !.LastProbeTime = time]
    IN IF existingCondition = 0
       THEN IF status = ConditionTrue
            THEN StatusUpdate([c EXCEPT !.Conditions = Append(@, appended), !.ConditionsNil = FALSE], fail)
            ELSE StatusUpdate(c, fail)
       ELSE StatusUpdate([c EXCEPT !.Conditions[existingCondition] = updated], fail)

(***************************************************************************)
(* State.                                                                  *)
(***************************************************************************)
ClaimNamespace == "a"

ClaimName == "a-a"

NewClaim(finalizers) ==
    [Namespace |-> ClaimNamespace, Name |-> ClaimName,
     Finalizers |-> finalizers, DeletionTimestamp |-> FALSE,
     ProjectReferenceCRLink |-> [Name |-> "", Namespace |-> ""],
     State |-> ClaimStatusEmpty, ConditionsNil |-> TRUE, Conditions |-> <<>>,
     ResourceVersion |-> 0]

NoReference == [exists |-> FALSE, DeletionTimestamp |-> FALSE, Finalizer |-> FALSE]

NoCall == [op |-> "none", arg |-> "", state |-> ObjectUnchanged, err |-> NoError, calls |-> <<>>]

Running(op, calls) == [op |-> op, arg |-> "", state |-> ObjectUnchanged, err |-> "running", calls |-> calls]

Returned(op, arg, r) == [op |-> op, arg |-> arg, state |-> r.state, err |-> r.err, calls |-> r.calls]

NewCustomResourceAdapterOf(projectClaim) ==
    [projectClaim |-> projectClaim,
     projectReference |-> newMatchingProjectReference(projectClaim)]

\* the bundle script is not run
NoScript ==
    /\ REMOVE_UNDEPLOYED = ""
    /\ BUNDLE_DIR = {}
    /\ DEPLOYED_HASH = <<>>
    /\ versions = <<>>
    /\ position = 0
    /\ delete = FALSE
    /\ REMOVED_VERSIONS = <<>>
    /\ line = "none"

InitCommon ==
    /\ NoScript
    /\ claimExists = TRUE
    /\ storeRef = NoReference
    /\ adapter = [i \in Invocations |-> NewCustomResourceAdapterOf(storeClaim)]
    /\ pc = [i \in Invocations |-> "idle"]
    /\ projectReferenceExists = [i \in Invocations |-> FALSE]
    /\ ret = [i \in Invocations |-> NoCall]
    /\ now = 0
    /\ lastFlip = 0
    /\ nmClaims = <<>>
    /\ nmRefs = <<>>

Init ==
    /\ storeClaim \in {NewClaim(<<>>), NewClaim(<<"other.a">>)}
    /\ InitCommon

\* what a call leaves alone besides the claim, the store and its result
Frame == UNCHANGED <<now, lastFlip, nmClaims, nmRefs, scriptVars>>

\* a finished call: its effects on the snapshot and the store, and its result
Commit(i, op, arg, r) ==
    /\ adapter' = [adapter EXCEPT ![i].projectClaim = r.claim]
    /\ storeClaim' = r.store
    /\ claimExists' = r.exists
    /\ storeRef' = r.ref
    /\ ret' = [ret EXCEPT ![i] = Returned(op, arg, r)]
    /\ pc' = [pc EXCEPT ![i] = "idle"]

\* the cap on the resourceVersion counter
Writable == storeClaim.ResourceVersion < MaxResourceVersion

(***************************************************************************)
(* One reconciliation invocation: a fresh snapshot, then adapter calls.    *)
(***************************************************************************)
NewCustomResourceAdapter(i) ==
    /\ pc[i] = "idle"
    /\ claimExists
    /\ adapter[i].projectClaim # storeClaim
    /\ adapter' = [adapter EXCEPT ![i] = NewCustomResourceAdapterOf(storeClaim)]
    /\ ret' = [ret EXCEPT ![i] = NoCall]
    /\ UNCHANGED <<storeClaim, claimExists, storeRef, pc, projectReferenceExists>>
    /\ Frame

\* ProjectReferenceExists, as the first step of the two methods that call it
ProjectReferenceExistsStep(i, op, fail) ==
    LET found == ProjectReferenceExists(adapter[i].projectClaim, fail) IN
    /\ pc[i] = "idle"
    /\ IF found.err # NoError
       THEN /\ ret' = [ret EXCEPT ![i] = Returned(op, "", [found EXCEPT !.state = ObjectUnchanged])]
            /\ UNCHANGED <<pc, projectReferenceExists>>
       ELSE /\ projectReferenceExists' = [projectReferenceExists EXCEPT ![i] = found.state]
            /\ pc' = [pc EXCEPT ![i] = op]
            /\ ret' = [ret EXCEPT ![i] = Running(op, <<"Get">>)]
    /\ UNCHANGED <<storeClaim, claimExists, storeRef, adapter>>
    /\ Frame

FinalizeLookup(i) ==
    /\ IsProjectClaimDeletion(adapter[i].projectClaim)
    /\ \E fail \in BOOLEAN : ProjectReferenceExistsStep(i, "FinalizeProjectClaim", fail)

FinalizeAct(i) ==
    /\ pc[i] = "FinalizeProjectClaim"
    /\ Writable
    /\ \E fail \in BOOLEAN :
          Commit(i, "FinalizeProjectClaim", "",
                 FinalizeProjectClaim(adapter[i].projectClaim, adapter[i].projectReference,
                                      projectReferenceExists[i], fail))
    /\ UNCHANGED projectReferenceExists
    /\ Frame

EnsureReferenceLookup(i) ==
    /\ ~IsProjectClaimDeletion(adapter[i].projectClaim)
    /\ \E fail \in BOOLEAN : ProjectReferenceExistsStep(i, "EnsureProjectReferenceExists", fail)

EnsureReferenceAct(i) ==
    /\ pc[i] = "EnsureProjectReferenceExists"
    /\ \E fail \in BOOLEAN :
          Commit(i, "EnsureProjectReferenceExists", "",
                 EnsureProjectReferenceExists(adapter[i].projectClaim, projectReferenceExists[i], fail))
    /\ UNCHANGED projectReferenceExists
    /\ Frame

\* ProjectReferenceExists called on its own
CallProjectReferenceExists(i) ==
    /\ pc[i] = "idle"
    /\ \E fail \in BOOLEAN :
          Commit(i, "ProjectReferenceExists", "", ProjectReferenceExists(adapter[i].projectClaim, fail))
    /\ UNCHANGED projectReferenceExists
    /\ Frame

CallEnsureFinalizer(i) ==
    /\ pc[i] = "idle"
    /\ Writable
    /\ \E fail \in BOOLEAN :
          Commit(i, "EnsureFinalizer", "", EnsureFinalizer(adapter[i].projectClaim, fail))
    /\ UNCHANGED projectReferenceExists
    /\ Frame

CallEnsureProjectClaimState(i, state) ==
    /\ pc[i] = "idle"
    /\ Writable
    /\ \E fail \in BOOLEAN :
          Commit(i, "EnsureProjectClaimState", state,
                 EnsureProjectClaimState(adapter[i].projectClaim, state, fail))
    /\ UNCHANGED projectReferenceExists
    /\ Frame

(***************************************************************************)
(* The rest of the cluster.                                                *)
(***************************************************************************)
\* somebody asks the store to delete the claim
RequestClaimDeletion ==
    /\ claimExists
    /\ ~storeClaim.DeletionTimestamp
    /\ Writable
    /\ storeClaim' = [storeClaim EXCEPT !.DeletionTimestamp = TRUE, !.ResourceVersion = @ + 1]
    /\ claimExists' = Retained(storeClaim')
    /\ UNCHANGED <<storeRef, adapter, pc, projectReferenceExists, ret>>
    /\ Frame

\* the reference's own controller puts its finalizer on the reference
ReferenceHeld ==
    /\ storeRef.exists
    /\ ~storeRef.DeletionTimestamp
    /\ ~storeRef.Finalizer
    /\ storeRef' = [storeRef EXCEPT !.Finalizer = TRUE]
    /\ UNCHANGED <<storeClaim, claimExists, adapter, pc, projectReferenceExists, ret>>
    /\ Frame

\* ... and lets a reference marked for deletion go
ReferenceReleased ==
    /\ storeRef.exists
    /\ storeRef.DeletionTimestamp
    /\ storeRef' = NoReference
    /\ UNCHANGED <<storeClaim, claimExists, adapter, pc, projectReferenceExists, ret>>
    /\ Frame

Next ==
    \/ \E i \in Invocations : NewCustomResourceAdapter(i)
    \/ \E i \in Invocations : FinalizeLookup(i)
    \/ \E i \in Invocations : FinalizeAct(i)
    \/ \E i \in Invocations : EnsureReferenceLookup(i)
    \/ \E i \in Invocations : EnsureReferenceAct(i)
    \/ \E i \in Invocations : ~IsProjectClaimDeletion(adapter[i].projectClaim) /\ CallEnsureFinalizer(i)
    \/ RequestClaimDeletion
    \/ ReferenceHeld
    \/ ReferenceReleased

Spec == Init /\ [][Next]_vars

(***************************************************************************)
(* Concurrent invocations of a claim that is not being deleted: they look  *)
(* the reference up, create it and put the finalizer on the claim.         *)
(***************************************************************************)
NextReference ==
    \/ \E i \in Invocations : NewCustomResourceAdapter(i)
    \/ \E i \in Invocations : CallProjectReferenceExists(i)
    \/ \E i \in Invocations : EnsureReferenceLookup(i)
    \/ \E i \in Invocations : EnsureReferenceAct(i)
    \/ \E i \in Invocations : CallEnsureFinalizer(i)
    \/ ReferenceHeld

SpecReference == Init /\ [][NextReference]_vars

(***************************************************************************)
(* The deletion of a claim that carries the finalizer: the reconciler      *)
(* keeps invoking FinalizeProjectClaim, each time on the claim as stored,  *)
(* the store answers in the end, and the reference's controller lets a     *)
(* reference marked for deletion go.                                       *)
(***************************************************************************)
InitLive ==
    /\ NoScript
    /\ storeClaim \in {NewClaim(<<ProjectClaimFinalizer>>), NewClaim(<<"other.a", ProjectClaimFinalizer>>)}
    /\ claimExists = TRUE
    /\ storeRef \in {NoReference, CreatedReference, [CreatedReference EXCEPT !.Finalizer = TRUE]}
    /\ adapter = [i \in Invocations |-> NewCustomResourceAdapterOf(storeClaim)]
    /\ pc = [i \in Invocations |-> "idle"]
    /\ projectReferenceExists = [i \in Invocations |-> FALSE]
    /\ ret = [i \in Invocations |-> NoCall]
    /\ now = 0
    /\ lastFlip = 0
    /\ nmClaims = <<>>
    /\ nmRefs = <<>>

NextLive ==
    \/ \E i \in Invocations : NewCustomResourceAdapter(i)
    \/ \E i \in Invocations : FinalizeLookup(i)
    \/ \E i \in Invocations : FinalizeAct(i)
    \/ RequestClaimDeletion
    \/ ReferenceHeld
    \/ ReferenceReleased

\* the lookup of FinalizeProjectClaim, answered by the store
FinalizeLookupAnswered(i) ==
    /\ IsProjectClaimDeletion(adapter[i].projectClaim)
    /\ ProjectReferenceExistsStep(i, "FinalizeProjectClaim", FALSE)

\* the rest of FinalizeProjectClaim on the claim as stored, the store answering
FinalizeActOnFreshSnapshot(i) ==
    /\ pc[i] = "FinalizeProjectClaim"
    /\ adapter[i].projectClaim = storeClaim
    /\ Writable
    /\ Commit(i, "FinalizeProjectClaim", "",
              FinalizeProjectClaim(adapter[i].projectClaim, adapter[i].projectReference,
                                   projectReferenceExists[i], FALSE))
    /\ UNCHANGED projectReferenceExists
    /\ Frame

Fairness ==
    /\ \A i \in Invocations : SF_vars(NewCustomResourceAdapter(i))
    /\ \A i \in Invocations : WF_vars(FinalizeLookupAnswered(i))
    /\ \A i \in Invocations : WF_vars(FinalizeAct(i))
    /\ \A i \in Invocations : SF_vars(FinalizeActOnFreshSnapshot(i))
    /\ WF_vars(ReferenceReleased)

SpecLive == InitLive /\ [][NextLive]_vars /\ Fairness

(***************************************************************************)
(* Concurrent invocations advancing the phase.                             *)
(***************************************************************************)
NextPhase ==
    \/ \E i \in Invocations : NewCustomResourceAdapter(i)
    \/ \E i \in Invocations, state \in NamedStatuses : CallEnsureProjectClaimState(i, state)

SpecPhase == Init /\ [][NextPhase]_vars

(***************************************************************************)
(* One adapter, its calls one after the other, from any claim.             *)
(***************************************************************************)
Markers == {ProjectClaimFinalizer} \cup OtherFinalizers

FinalizerLists == UNION {[1..n -> Markers] : n \in 0..MaxFinalizers}

Links == {[Name |-> "", Namespace |-> ""],
          [Name |-> "wrong", Namespace |-> ProjectReferenceNamespace],
          [Name |-> ClaimNamespace \o "-" \o ClaimName, Namespace |-> ProjectReferenceNamespace]}

InitFinalizer ==
    /\ storeClaim \in {[NewClaim(f) EXCEPT !.DeletionTimestamp = d] :
                          f \in FinalizerLists, d \in BOOLEAN}
    /\ Retained(storeClaim)
    /\ InitCommon

InitState ==
    /\ storeClaim \in {[NewClaim(<<>>) EXCEPT !.State = s] : s \in ClaimStatuses}
    /\ InitCommon

InitLink ==
    /\ storeClaim \in {[NewClaim(f) EXCEPT !.ProjectReferenceCRLink = l, !.ConditionsNil = n] :
                          f \in {<<>>, <<"other.a">>}, l \in Links, n \in BOOLEAN}
    /\ InitCommon

CallEnsureFinalizerDeleted(i) ==
    /\ pc[i] = "idle"
    /\ Writable
    /\ \E fail \in BOOLEAN :
          Commit(i, "EnsureFinalizerDeleted", "", EnsureFinalizerDeleted(adapter[i].projectClaim, fail))
    /\ UNCHANGED projectReferenceExists
    /\ Frame

CallEnsureProjectClaimInitialized(i) ==
    /\ pc[i] = "idle"
    /\ Writable
    /\ \E fail \in BOOLEAN :
          Commit(i, "EnsureProjectClaimInitialized", "",
                 EnsureProjectClaimInitialized(adapter[i].projectClaim, fail))
    /\ UNCHANGED projectReferenceExists
    /\ Frame

CallEnsureProjectReferenceLink(i) ==
    /\ pc[i] = "idle"
    /\ Writable
    /\ \E fail \in BOOLEAN :
          Commit(i, "EnsureProjectReferenceLink", "",
                 EnsureProjectReferenceLink(adapter[i].projectClaim, adapter[i].projectReference, fail))
    /\ UNCHANGED projectReferenceExists
    /\ Frame

NextFinalizer ==
    \/ CallEnsureFinalizer(1)
    \/ CallEnsureFinalizerDeleted(1)

SpecFinalizer == InitFinalizer /\ [][NextFinalizer]_vars

NextState == \E state \in ClaimStatuses : CallEnsureProjectClaimState(1, state)

SpecState == InitState /\ [][NextState]_vars

NextLink ==
    \/ CallEnsureProjectClaimInitialized(1)
    \/ CallEnsureProjectReferenceLink(1)

SpecLink == InitLink /\ [][NextLink]_vars

(***************************************************************************)
(* One adapter setting the error condition, under a clock.                 *)
(***************************************************************************)
Condition(type, status) ==
    [Type |-> type, Status |-> status, Reason |-> "r1", Message |-> "m0",
     LastTransitionTime |-> 0, LastProbeTime |-> 0]

ConditionLists ==
    {<<>>,
     <<Condition(ClaimConditionOther, "True")>>,
     <<Condition(ClaimConditionError, "True")>>,
     <<Condition(ClaimConditionOther, "False"), Condition(ClaimConditionError, "Unknown")>>,
     <<Condition(ClaimConditionError, "False"), Condition(ClaimConditionOther, "True")>>}

InitCond ==
    /\ storeClaim \in {[NewClaim(<<>>) EXCEPT !.ConditionsNil = n, !.Conditions = l] :
                          n \in BOOLEAN, l \in ConditionLists}
    /\ storeClaim.ConditionsNil => storeClaim.Conditions = <<>>
    /\ InitCommon

Tick ==
    /\ now < MaxClock
    /\ now' = now + 1
    /\ UNCHANGED <<storeClaim, claimExists, storeRef, adapter, pc, projectReferenceExists,
                   ret, lastFlip, nmClaims, nmRefs, scriptVars>>

\* the truth value the tracked condition holds, "" for none
TrackedStatus(c) ==
    IF FindProjectClaimCondition(c) = 0 THEN ""
    ELSE c.Conditions[FindProjectClaimCondition(c)].Status

CallSetProjectClaimCondition(i, status, reason, message) ==
    /\ pc[i] = "idle"
    /\ Writable
    /\ \E fail \in BOOLEAN :
          Commit(i, "SetProjectClaimCondition", status,
                 SetProjectClaimCondition(adapter[i].projectClaim, status, reason, message, now, fail))
    /\ lastFlip' = IF \/ TrackedStatus(adapter[i].projectClaim) = "" /\ status = ConditionTrue
                      \/ TrackedStatus(adapter[i].projectClaim) \notin {"", status}
                   THEN now ELSE lastFlip
    /\ UNCHANGED <<projectReferenceExists, now, nmClaims, nmRefs, scriptVars>>

NextCond ==
    \/ Tick
    \/ \E status \in ConditionStatuses, reason \in Reasons, message \in Messages :
          CallSetProjectClaimCondition(1, status, reason, message)

SpecCond == InitCond /\ [][NextCond]_vars

(***************************************************************************)
(* One adapter running every mutating operation, again and again.          *)
(***************************************************************************)
\* the arguments the calls are repeated with
RerunStatuses == {ClaimStatusPending, ClaimStatusPendingProject}

RerunConditionStatuses == {"True", "False"}

InitRerun ==
    /\ storeClaim = NewClaim(<<>>)
    /\ InitCommon

NextRerun ==
    \/ CallEnsureFinalizer(1)
    \/ CallEnsureProjectReferenceLink(1)
    \/ CallEnsureProjectClaimInitialized(1)
    \/ \E state \in RerunStatuses : CallEnsureProjectClaimState(1, state)
    \/ EnsureReferenceLookup(1)
    \/ EnsureReferenceAct(1)
    \/ \E status \in RerunConditionStatuses : CallSetProjectClaimCondition(1, status, "r1", "m1")

SpecRerun == InitRerun /\ [][NextRerun]_vars

(***************************************************************************)
(* Deriving the references of two claims.                                  *)
(***************************************************************************)
NameChars == {"a", "-"}

RECURSIVE Strs(_)
Strs(n) ==
    IF n = 0 THEN {""}
    ELSE Strs(n - 1) \cup {s \o ch : s \in Strs(n - 1), ch \in NameChars}

\* names begin and end with an alphanumeric character
Names == {"a"} \cup {"a" \o mid \o "a" : mid \in Strs(MaxNameLen - 2)}

Identities == [Namespace : Names, Name : Names]

Underived ==
    [Name |-> "", Namespace |-> "", ClaimName |-> "", ClaimNamespace |-> "",
     DeletionTimestamp |-> FALSE]

InitNaming ==
    /\ NoScript
    /\ storeClaim = NewClaim(<<>>)
    /\ claimExists = TRUE
    /\ storeRef = NoReference
    /\ adapter = [i \in Invocations |-> NewCustomResourceAdapterOf(storeClaim)]
    /\ pc = [i \in Invocations |-> "idle"]
    /\ projectReferenceExists = [i \in Invocations |-> FALSE]
    /\ ret = [i \in Invocations |-> NoCall]
    /\ now = 0
    /\ lastFlip = 0
    /\ nmClaims \in [1..2 -> Identities]
    /\ nmRefs = [k \in 1..2 |-> Underived]

DeriveReference(k) ==
    /\ nmRefs[k] = Underived
    /\ nmRefs' = [nmRefs EXCEPT ![k] = newMatchingProjectReference(nmClaims[k])]
    /\ UNCHANGED <<storeClaim, claimExists, storeRef, adapter, pc, projectReferenceExists,
                   ret, now, lastFlip, nmClaims, scriptVars>>

NextNaming == \E k \in 1..2 : DeriveReference(k)

SpecNaming == InitNaming /\ [][NextNaming]_vars

(***************************************************************************)
(* The bundle script: the removal of the versions more recent than the     *)
(* deployed hash.  A file name is the sequence of its characters.          *)
(***************************************************************************)
\* the characters of the names, in byte order
Bytes == <<"-", ".", "0", "1", "2", "3", "4", "5", "6", "7", "8", "9",
           "a", "b", "c", "h", "p", "s", "y">>

Byte(ch) == CHOOSE k \in 1..Len(Bytes) : Bytes[k] = ch

Digits == {"0", "1", "2", "3", "4", "5", "6", "7", "8", "9"}

DigitValue(ch) == Byte(ch) - Byte("0")

\* the fields of s between the delimiters d
RECURSIVE Fields(_, _)
Fields(s, d) ==
    IF s = <<>> THEN << <<>> >>
    ELSE LET rest == Fields(Tail(s), d) IN
         IF Head(s) = d THEN << <<>> >> \o rest
         ELSE << <<Head(s)>> \o Head(rest) >> \o Tail(rest)

\* s from the start of its n-th field on
RECURSIVE FromField(_, _, _)
FromField(s, d, n) ==
    IF n = 1 THEN s
    ELSE IF s = <<>> THEN <<>>
    ELSE IF Head(s) = d THEN FromField(Tail(s), d, n - 1)
    ELSE FromField(Tail(s), d, n)

\* the number a key starts with, as sort -g reads it: <<>> for none
RECURSIVE LeadingNumber(_, _, _)
LeadingNumber(s, value, seen) ==
    IF s # <<>> /\ Head(s) \in Digits
    THEN LeadingNumber(Tail(s), 10 * value + DigitValue(Head(s)), TRUE)
    ELSE IF seen THEN <<value>> ELSE <<>>

\* sort -t . -k 3 -g: the key of a name
SortKey(name) == LeadingNumber(FromField(name, ".", 3), 0, FALSE)

\* the comparison of whole lines, byte by byte
RECURSIVE BytesBefore(_, _)
BytesBefore(s, t) ==
    IF t = <<>> THEN FALSE
    ELSE IF s = <<>> THEN TRUE
    ELSE IF Head(s) # Head(t) THEN Byte(Head(s)) < Byte(Head(t))
    ELSE BytesBefore(Tail(s), Tail(t))

\* the order of sort -g: no number before any number, numbers by value,
\* and equal keys by the whole line
SortsBefore(s, t) ==
    LET ks == SortKey(s)
        kt == SortKey(t)
    IN IF ks = kt THEN BytesBefore(s, t)
       ELSE IF ks = <<>> THEN TRUE
       ELSE IF kt = <<>> THEN FALSE
       ELSE ks[1] < kt[1]

\* ls "$BUNDLE_DIR" | sort -t . -k 3 -g
RECURSIVE Sorted(_)
Sorted(names) ==
    IF names = {} THEN <<>>
    ELSE LET first == CHOOSE n \in names : \A m \in names \ {n} : SortsBefore(n, m)
         IN <<first>> \o Sorted(names \ {first})

\* cut -d- -f2: a line without the delimiter comes out whole
Cut2(name) ==
    LET fields == Fields(name, "-") IN
    IF Len(fields) = 1 THEN name ELSE fields[2]

\* ${short_hash##sha}
StripSha(s) ==
    IF Len(s) >= 3 /\ SubSeq(s, 1, 3) = <<"s", "h", "a">>
    THEN SubSeq(s, 4, Len(s)) ELSE s

short_hash(version) == StripSha(Cut2(version))

\* [[ "$DEPLOYED_HASH" == "${short_hash}"* ]]
MatchesDeployed(hash, deployed) ==
    /\ Len(hash) <= Len(deployed)
    /\ SubSeq(deployed, 1, Len(hash)) = hash

\* [ -d "$BUNDLE_DIR/$version" ]
IsDirectory(dir, version) == \E e \in dir : e.name = version /\ e.directory

\* one pass of the loop body removing the deployed version with the later ones
Iteration_RemovesDeployed(dir, deployed, flag, removed, version) ==
    IF ~IsDirectory(dir, version)
    THEN [BUNDLE_DIR |-> dir, delete |-> flag, REMOVED_VERSIONS |-> removed]
    ELSE IF flag \/ MatchesDeployed(short_hash(version), deployed)
    THEN [BUNDLE_DIR |-> {e \in dir : e.name # version}, delete |-> TRUE,
          REMOVED_VERSIONS |-> <<version>> \o removed]
    ELSE [BUNDLE_DIR |-> dir, delete |-> flag, REMOVED_VERSIONS |-> removed]

\* one pass of the loop body, for the word `version'
Iteration(dir, deployed, flag, removed, version) ==
    IF ~IsDirectory(dir, version)
    THEN [BUNDLE_DIR |-> dir, delete |-> flag, REMOVED_VERSIONS |-> removed]
    ELSE IF flag = FALSE
    THEN IF MatchesDeployed(short_hash(version), deployed)
         THEN [BUNDLE_DIR |-> dir, delete |-> TRUE, REMOVED_VERSIONS |-> removed]
         ELSE [BUNDLE_DIR |-> dir, delete |-> flag, REMOVED_VERSIONS |-> removed]
    ELSE [BUNDLE_DIR |-> {e \in dir : e.name # version}, delete |-> flag,
          REMOVED_VERSIONS |-> <<version>> \o removed]

\* what the bundle repository may hold: version directories named
\* 0.1.<commits>-<hash>, one of them with the hash spelled sha<hash>, two of
\* the same commit number, a plain file named like a version, and the
\* package file
Entry(name, directory) == [name |-> name, directory |-> directory]

Catalog ==
    {Entry(<<"0", ".", "1", ".", "1", "-", "a", "a", "a">>, TRUE),
     Entry(<<"0", ".", "1", ".", "2", "-", "s", "h", "a", "b", "b">>, TRUE),
     Entry(<<"0", ".", "1", ".", "2", "-", "a", "b">>, TRUE),
     Entry(<<"0", ".", "1", ".", "3", "-", "a", "b">>, TRUE),
     Entry(<<"0", ".", "1", ".", "1", "0", "-", "b">>, TRUE),
     Entry(<<"0", ".", "1", ".", "4", "-", "b", "b">>, FALSE),
     Entry(<<"a", ".", "p", ".", "y">>, FALSE)}

\* what the lookup of the deployed hash may answer: nothing, or a hash
DeployedHashes ==
    {<<>>, <<"a", "a", "a", "b">>, <<"b", "b", "a">>, <<"a", "b", "b">>, <<"c">>}

InitBundle ==
    /\ REMOVE_UNDEPLOYED \in {"true", ""}
    /\ BUNDLE_DIR \in {dir \in SUBSET Catalog : Cardinality(dir) <= MaxVersions}
    /\ DEPLOYED_HASH = <<>>
    /\ versions = <<>>
    /\ position = 0
    /\ delete = FALSE
    /\ REMOVED_VERSIONS = <<>>
    /\ line = "REMOVED_VERSIONS"
    /\ storeClaim = NewClaim(<<>>)
    /\ claimExists = TRUE
    /\ storeRef = NoReference
    /\ adapter = [i \in Invocations |-> NewCustomResourceAdapterOf(storeClaim)]
    /\ pc = [i \in Invocations |-> "idle"]
    /\ projectReferenceExists = [i \in Invocations |-> FALSE]
    /\ ret = [i \in Invocations |-> NoCall]
    /\ now = 0
    /\ lastFlip = 0
    /\ nmClaims = <<>>
    /\ nmRefs = <<>>

\* if [[ "$REMOVE_UNDEPLOYED" == true ]] fails
SkipRemoval ==
    /\ line = "REMOVED_VERSIONS"
    /\ REMOVE_UNDEPLOYED # "true"
    /\ line' = "generate"
    /\ UNCHANGED <<REMOVE_UNDEPLOYED, BUNDLE_DIR, DEPLOYED_HASH, versions, position, delete,
                   REMOVED_VERSIONS>>
    /\ UNCHANGED adapterVars

\* ... holds: the deployed hash is looked up and the directory listed
StartRemoval ==
    /\ line = "REMOVED_VERSIONS"
    /\ REMOVE_UNDEPLOYED = "true"
    /\ DEPLOYED_HASH' \in DeployedHashes
    /\ delete' = FALSE
    /\ versions' = Sorted({e.name : e \in BUNDLE_DIR})
    /\ position' = 0
    /\ line' = "for"
    /\ UNCHANGED <<REMOVE_UNDEPLOYED, BUNDLE_DIR, REMOVED_VERSIONS>>
    /\ UNCHANGED adapterVars

ForVersion ==
    /\ line = "for"
    /\ position < Len(versions)
    /\ LET pass == Iteration(BUNDLE_DIR, DEPLOYED_HASH, delete, REMOVED_VERSIONS,
                             versions[position + 1])
       IN /\ BUNDLE_DIR' = pass.BUNDLE_DIR
          /\ delete' = pass.delete
          /\ REMOVED_VERSIONS' = pass.REMOVED_VERSIONS
    /\ position' = position + 1
    /\ UNCHANGED <<REMOVE_UNDEPLOYED, DEPLOYED_HASH, versions, line>>
    /\ UNCHANGED adapterVars

Done ==
    /\ line = "for"
    /\ position = Len(versions)
    /\ line' = "generate"
    /\ UNCHANGED <<REMOVE_UNDEPLOYED, BUNDLE_DIR, DEPLOYED_HASH, versions, position, delete,
                   REMOVED_VERSIONS>>
    /\ UNCHANGED adapterVars

NextBundle ==
    \/ SkipRemoval
    \/ StartRemoval
    \/ ForVersion
    \/ Done

SpecBundle == InitBundle /\ [][NextBundle]_vars

(***************************************************************************)
(* Properties.                                                             *)
(***************************************************************************)
HasMarker(claim) == Contains(claim.Finalizers, ProjectClaimFinalizer)

\* the stored claim loses the tracked marker in this step
MarkerRemoved == HasMarker(storeClaim) /\ ~HasMarker(storeClaim')

\* C1: under any interleaving of invocations calling FinalizeProjectClaim,
\* EnsureProjectReferenceExists or EnsureFinalizer, the finalizer marker is
\* never removed from the stored claim while the paired reference exists in
\* the store: no step removes the marker and leaves a reference in the store.
C1_MarkerNeverRemovedWhileReferenceExists ==
    [][MarkerRemoved => ~storeRef'.exists]_vars

\* invocation i's last finished call
Finished(i, op) == ret[i].op = op /\ ret[i].err # "running"

\* C2: a FinalizeProjectClaim whose lookup found the reference (not marked
\* for deletion) issues a Delete on it, leaves the claim's finalizers alone
\* and returns ObjectUnchanged; one whose lookup answered NotFound and that
\* returns no error leaves the claim without the marker and returns
\* ObjectModified; and the stored claim loses the marker only in the second
\* step of a FinalizeProjectClaim whose lookup reported the reference absent.
C2_DeletionOrdering ==
    [][/\ \A i \in Invocations :
            FinalizeAct(i) =>
               /\ (projectReferenceExists[i] /\ ~adapter[i].projectReference.DeletionTimestamp) =>
                     /\ ret'[i].calls = <<"Get", "Delete">>
                     /\ adapter'[i].projectClaim.Finalizers = adapter[i].projectClaim.Finalizers
                     /\ storeClaim' = storeClaim
                     /\ ret'[i].state = ObjectUnchanged
               /\ (~projectReferenceExists[i] /\ ret'[i].err = NoError) =>
                     /\ ~HasMarker(adapter'[i].projectClaim)
                     /\ ret'[i].state = ObjectModified
                     /\ "Update" \in {ret'[i].calls[k] : k \in 1..Len(ret'[i].calls)} =>
                           ~HasMarker(storeClaim')
       /\ MarkerRemoved =>
             \E i \in Invocations :
                /\ pc[i] = "FinalizeProjectClaim"
                /\ ~projectReferenceExists[i]
                /\ pc'[i] = "idle"
      ]_vars

\* a first call has deleted the reference and a later one, finding it gone,
\* has removed the marker from the stored claim
C2_Witness ==
    /\ Finished(1, "FinalizeProjectClaim")
    /\ ret[1].calls = <<"Get", "Delete">>
    /\ ret[1].err = NoError
    /\ Finished(2, "FinalizeProjectClaim")
    /\ ret[2].calls = <<"Get", "Update">>
    /\ ret[2].state = ObjectModified
    /\ ~HasMarker(storeClaim)
    /\ ~storeRef.exists

\* the order of the phases: (empty) < Pending < PendingProject < any later one
Rank(state) ==
    IF state = ClaimStatusEmpty THEN 0
    ELSE IF state = ClaimStatusPending THEN 1
    ELSE IF state = ClaimStatusPendingProject THEN 2
    ELSE 3

\* C3 as stated: on one adapter, after any sequence of
\* EnsureProjectClaimState calls with arbitrary targets, the phase never
\* moves backward in the order (empty) < Pending < PendingProject < later.
C3_PhaseNeverMovesBackward ==
    [][Rank(adapter'[1].projectClaim.State) >= Rank(adapter[1].projectClaim.State)]_vars

\* C3, amended: with any non-empty target the phase never moves backward;
\* target Pending changes the phase only when it is empty, target
\* PendingProject only when it is exactly Pending, and at PendingProject a
\* call with target Pending writes nothing and leaves the phase alone.
C3_PhaseMonotoneForNamedTargets ==
    [][\A state \in ClaimStatuses :
          CallEnsureProjectClaimState(1, state) =>
             LET before == adapter[1].projectClaim.State
                 after == adapter'[1].projectClaim.State
             IN /\ state # ClaimStatusEmpty => Rank(after) >= Rank(before)
                /\ (state = ClaimStatusPending /\ after # before) => before = ClaimStatusEmpty
                /\ (state = ClaimStatusPendingProject /\ after # before) => before = ClaimStatusPending
                /\ (state = ClaimStatusPending /\ before = ClaimStatusPendingProject) =>
                      /\ after = ClaimStatusPendingProject
                      /\ ret'[1].calls = <<>>
                      /\ storeClaim' = storeClaim
      ]_vars

\* the adapter went (empty) -> Pending -> PendingProject and a call with
\* target Pending then did nothing
C3_Witness ==
    /\ Finished(1, "EnsureProjectClaimState")
    /\ ret[1].arg = ClaimStatusPending
    /\ ret[1].calls = <<>>
    /\ adapter[1].projectClaim.State = ClaimStatusPendingProject
    /\ storeClaim.State = ClaimStatusPendingProject
    /\ storeClaim.ResourceVersion = 2

\* invocation i holds a snapshot older than the stored claim, whose phase has moved on
StaleSnapshot(i) ==
    /\ adapter[i].projectClaim.ResourceVersion < storeClaim.ResourceVersion
    /\ Rank(adapter[i].projectClaim.State) < Rank(storeClaim.State)

\* C4 as stated: an invocation holding an older snapshot (phase empty or
\* Pending) that calls EnsureProjectClaimState with the older target is
\* rejected by the phase precondition itself: it issues no write.
C4_StaleCallRejectedByPrecondition ==
    [][\A i \in Invocations, state \in NamedStatuses :
          (/\ CallEnsureProjectClaimState(i, state)
           /\ StaleSnapshot(i)
           /\ Rank(state) <= Rank(storeClaim.State)) => ret'[i].calls = <<>>
      ]_vars

\* C4, amended: the precondition is evaluated on the invocation's own
\* snapshot, so a stale call may pass it and issue a status update; that
\* update fails in the store (stale version) and leaves the stored claim as
\* it was, and in every interleaving of calls with named targets the phase
\* recorded in the store never moves backward.
C4_StoreRejectsStaleWrite ==
    [][/\ \A i \in Invocations, state \in NamedStatuses :
            (CallEnsureProjectClaimState(i, state) /\ StaleSnapshot(i)) =>
               /\ storeClaim' = storeClaim
               /\ ret'[i].calls # <<>> => ret'[i].err \in {ErrConflict, ErrTransient}
       /\ Rank(storeClaim'.State) >= Rank(storeClaim.State)
      ]_vars

\* a call from an empty snapshot with target Pending passed the precondition
\* and was refused by the store, which is at PendingProject
C4_Witness ==
    \E i \in Invocations :
       /\ Finished(i, "EnsureProjectClaimState")
       /\ ret[i].arg = ClaimStatusPending
       /\ ret[i].calls = <<"StatusUpdate">>
       /\ ret[i].err = ErrConflict
       /\ storeClaim.State = ClaimStatusPendingProject

IsTrackedMarker(m) == m = ProjectClaimFinalizer

IsOtherMarker(m) == m # ProjectClaimFinalizer

\* C5: EnsureFinalizer is idempotent.  On a claim without the marker a call
\* the store accepts returns ObjectModified with one Update; the call that
\* follows it on the same adapter returns ObjectUnchanged, issues no store
\* call and leaves the finalizer list as the first call left it, the marker
\* in it once.
C5_EnsureFinalizerIdempotent ==
    [][CallEnsureFinalizer(1) =>
          /\ (~HasMarker(adapter[1].projectClaim) /\ ret'[1].err = NoError) =>
                /\ ret'[1].state = ObjectModified
                /\ ret'[1].calls = <<"Update">>
          /\ (Finished(1, "EnsureFinalizer") /\ ret[1].state = ObjectModified) =>
                /\ ret'[1].state = ObjectUnchanged
                /\ ret'[1].err = NoError
                /\ ret'[1].calls = <<>>
                /\ adapter'[1].projectClaim.Finalizers = adapter[1].projectClaim.Finalizers
                /\ storeClaim' = storeClaim
                /\ Len(SelectSeq(adapter'[1].projectClaim.Finalizers, IsTrackedMarker)) = 1
      ]_vars

\* the one write the store saw added the marker, and the call after it did nothing
C5_Witness ==
    /\ Finished(1, "EnsureFinalizer")
    /\ ret[1].state = ObjectUnchanged
    /\ ret[1].calls = <<>>
    /\ storeClaim.ResourceVersion = 1
    /\ storeClaim.Finalizers = <<"other.a", ProjectClaimFinalizer>>
    /\ adapter[1].projectClaim = storeClaim

\* C6: the finalizer operations never touch the markers of others.
\* EnsureFinalizer keeps every marker in place and appends only the tracked
\* one; EnsureFinalizerDeleted leaves exactly the list without the tracked
\* marker, and with the tracked marker absent changes nothing and writes
\* nothing.
C6_OtherMarkersUntouched ==
    [][/\ CallEnsureFinalizer(1) =>
             LET f == adapter[1].projectClaim.Finalizers
                 g == adapter'[1].projectClaim.Finalizers
             IN /\ g = IF \E k \in 1..Len(f) : f[k] = ProjectClaimFinalizer
                       THEN f ELSE f \o <<ProjectClaimFinalizer>>
                /\ storeClaim'.Finalizers \in {storeClaim.Finalizers, g}
       /\ CallEnsureFinalizerDeleted(1) =>
             LET f == adapter[1].projectClaim.Finalizers
                 g == adapter'[1].projectClaim.Finalizers
             IN /\ g = SelectSeq(f, IsOtherMarker)
                /\ storeClaim'.Finalizers \in {storeClaim.Finalizers, g}
                /\ (\A k \in 1..Len(f) : f[k] # ProjectClaimFinalizer) =>
                      /\ g = f
                      /\ ret'[1].calls = <<>>
                      /\ storeClaim' = storeClaim
      ]_vars

\* the markers {other.a, tracked} became exactly {other.a} in the store
C6_Witness ==
    /\ Finished(1, "EnsureFinalizerDeleted")
    /\ ret[1].calls = <<"Update">>
    /\ ret[1].err = NoError
    /\ storeClaim.ResourceVersion = 1
    /\ storeClaim.Finalizers = <<"other.a">>

IsTracked(condition) == condition.Type = ClaimConditionError

IsNotTracked(condition) == condition.Type # ClaimConditionError

Tracked(c) == SelectSeq(c.Conditions, IsTracked)

\* C7: the condition list holds at most one entry of the tracked kind after
\* any sequence of SetProjectClaimCondition calls; the entries of other
\* kinds stay as they are, in their order; and an affirmative call leaves
\* exactly one tracked entry, carrying the call's reason and message.
C7_ConditionSingleSlot ==
    [][\A status \in ConditionStatuses, reason \in Reasons, message \in Messages :
          CallSetProjectClaimCondition(1, status, reason, message) =>
             LET c == adapter[1].projectClaim
                 d == adapter'[1].projectClaim
             IN /\ Len(Tracked(d)) <= 1
                /\ Len(Tracked([Conditions |-> storeClaim'.Conditions])) <= 1
                /\ SelectSeq(d.Conditions, IsNotTracked) = SelectSeq(c.Conditions, IsNotTracked)
                /\ status = ConditionTrue =>
                      /\ Len(Tracked(d)) = 1
                      /\ Tracked(d)[1].Status = ConditionTrue
                      /\ Tracked(d)[1].Reason = reason
                      /\ Tracked(d)[1].Message = message
      ]_vars

\* an affirmative call found an affirmative entry and gave it another reason:
\* one entry, beside the entry of another kind
C7_Witness ==
    /\ Finished(1, "SetProjectClaimCondition")
    /\ ret[1].arg = ConditionTrue
    /\ Len(adapter[1].projectClaim.Conditions) = 2
    /\ Len(Tracked(adapter[1].projectClaim)) = 1
    /\ Tracked(adapter[1].projectClaim)[1].Reason = "r2"
    /\ Tracked(adapter[1].projectClaim)[1].LastTransitionTime < Tracked(adapter[1].projectClaim)[1].LastProbeTime
    /\ storeClaim.ResourceVersion >= 2

\* C8: on an existing tracked entry SetProjectClaimCondition sets the probe
\* time, the reason and the message to the call's, and the transition time
\* to now when the truth value changes and not otherwise; so the transition
\* time is always the time of the last call that changed the truth value, or
\* that created the entry.
C8_TransitionTimeIsLastChange ==
    /\ [](Len(Tracked(adapter[1].projectClaim)) = 1 =>
             Tracked(adapter[1].projectClaim)[1].LastTransitionTime = lastFlip)
    /\ [][\A status \in ConditionStatuses, reason \in Reasons, message \in Messages :
             (/\ CallSetProjectClaimCondition(1, status, reason, message)
              /\ Len(Tracked(adapter[1].projectClaim)) = 1) =>
                LET e == Tracked(adapter[1].projectClaim)[1]
                    f == Tracked(adapter'[1].projectClaim)[1]
                IN /\ f.LastProbeTime = now
                   /\ f.Reason = reason
                   /\ f.Message = message
                   /\ f.Status = status
                   /\ e.Status # status => f.LastTransitionTime = now
                   /\ e.Status = status => f.LastTransitionTime = e.LastTransitionTime
         ]_vars

\* the truth value changed at time 1 and was confirmed at time 2
C8_Witness ==
    /\ Finished(1, "SetProjectClaimCondition")
    /\ Len(Tracked(adapter[1].projectClaim)) = 1
    /\ Tracked(adapter[1].projectClaim)[1].LastTransitionTime = 1
    /\ Tracked(adapter[1].projectClaim)[1].LastProbeTime = 2

\* C9 as stated: SetProjectClaimCondition with a truth value other than True
\* on a claim without a tracked entry creates no entry, leaves the in-memory
\* claim alone and makes no persist call.
C9_NegativeConditionNoPersist ==
    [][\A status \in ConditionStatuses \ {ConditionTrue}, reason \in Reasons, message \in Messages :
          (/\ CallSetProjectClaimCondition(1, status, reason, message)
           /\ Len(Tracked(adapter[1].projectClaim)) = 0) =>
              /\ adapter'[1].projectClaim.Conditions = adapter[1].projectClaim.Conditions
              /\ ret'[1].calls = <<>>
      ]_vars

\* C9, amended: such a call creates no entry and leaves the in-memory
\* condition list and phase as they are, but it still issues one status
\* update, which persists the unchanged status (and whose failure it returns).
C9_NegativeConditionStillPersists ==
    [][\A status \in ConditionStatuses \ {ConditionTrue}, reason \in Reasons, message \in Messages :
          (/\ CallSetProjectClaimCondition(1, status, reason, message)
           /\ Len(Tracked(adapter[1].projectClaim)) = 0) =>
              /\ adapter'[1].projectClaim.Conditions = adapter[1].projectClaim.Conditions
              /\ adapter'[1].projectClaim.ConditionsNil = adapter[1].projectClaim.ConditionsNil
              /\ adapter'[1].projectClaim.State = adapter[1].projectClaim.State
              /\ ret'[1].calls = <<"StatusUpdate">>
              /\ ret'[1].err = NoError =>
                    /\ storeClaim'.Conditions = adapter[1].projectClaim.Conditions
                    /\ storeClaim'.ResourceVersion = storeClaim.ResourceVersion + 1
      ]_vars

\* a negative call on a claim without the entry went to the store and back
C9_Witness ==
    /\ Finished(1, "SetProjectClaimCondition")
    /\ ret[1].arg = "False"
    /\ ret[1].calls = <<"StatusUpdate">>
    /\ ret[1].err = NoError
    /\ Len(Tracked(adapter[1].projectClaim)) = 0
    /\ storeClaim.ResourceVersion = 1

\* C10: the reference derived from a claim depends on the claim's namespace
\* and name alone, and two claims that differ in namespace or name derive
\* references that differ.
C10_DistinctClaimsDistinctReferences ==
    (nmRefs[1] # Underived /\ nmRefs[2] # Underived) =>
       /\ nmClaims[1] = nmClaims[2] => nmRefs[1] = nmRefs[2]
       /\ nmClaims[1] # nmClaims[2] =>
             <<nmRefs[1].Namespace, nmRefs[1].Name>> # <<nmRefs[2].Namespace, nmRefs[2].Name>>

\* invocation i's call issued a Create
IssuedCreate(r) == \E k \in 1..Len(r.calls) : r.calls[k] = "Create"

\* C11: the reference is created exactly once.  In any interleaving of
\* invocations calling EnsureProjectReferenceExists, a Create is issued only
\* by an invocation whose lookup reported the reference absent; a Create
\* that succeeds takes the store from no reference to the reference, and a
\* reference in the store stays, so at most one Create succeeds and the
\* store never holds a second reference; and an invocation that finds the
\* reference present issues no Create and returns nil.
C11_ReferenceCreatedOnce ==
    [][/\ \A i \in Invocations :
            EnsureReferenceAct(i) =>
               /\ IssuedCreate(ret'[i]) => ~projectReferenceExists[i]
               /\ (IssuedCreate(ret'[i]) /\ ret'[i].err = NoError) =>
                     /\ ~storeRef.exists
                     /\ storeRef' = CreatedReference
               /\ (IssuedCreate(ret'[i]) /\ storeRef.exists) =>
                     /\ ret'[i].err \in {ErrAlreadyExists, ErrTransient}
                     /\ storeRef' = storeRef
               /\ projectReferenceExists[i] =>
                     /\ ret'[i].calls = <<"Get">>
                     /\ ret'[i].err = NoError
                     /\ storeRef' = storeRef
       /\ storeRef.exists => storeRef'.exists
       /\ (~storeRef.exists /\ storeRef'.exists) =>
             \E i \in Invocations : pc[i] = "EnsureProjectReferenceExists" /\ pc'[i] = "idle"
      ]_vars

\* both invocations found the reference absent; the Create of the one
\* succeeded and the Create of the other was refused
C11_Witness ==
    /\ Finished(1, "EnsureProjectReferenceExists")
    /\ ret[1].calls = <<"Get", "Create">>
    /\ ret[1].err = NoError
    /\ Finished(2, "EnsureProjectReferenceExists")
    /\ ret[2].calls = <<"Get", "Create">>
    /\ ret[2].err = ErrAlreadyExists
    /\ storeRef.exists

\* invocation i's call issued a Delete
IssuedDelete(r) == \E k \in 1..Len(r.calls) : r.calls[k] = "Delete"

\* C12: the reference is deleted exactly once.  A FinalizeProjectClaim
\* issues a Delete only while the reference's own deletion has not been
\* requested: when the stored reference is marked for deletion and still
\* exists (held by its own finalizer), the call issues no Delete.
C12_NoDeleteOnceDeletionRequested ==
    [][\A i \in Invocations :
          (/\ FinalizeAct(i)
           /\ storeRef.exists
           /\ storeRef.DeletionTimestamp) => ~IssuedDelete(ret'[i])
      ]_vars

\* C13: ProjectReferenceExists maps the lookup's outcome.  With no store
\* failure it answers (true, nil) when the reference is in the store and
\* (false, nil) when the store says NotFound; any other lookup failure comes
\* back as (false, err), the store's error as it is; and in all three cases
\* it issues the one Get, writes nothing and leaves the in-memory claim and
\* reference alone.
C13_LookupErrorMapping ==
    [][\A i \in Invocations :
          CallProjectReferenceExists(i) =>
             /\ ret'[i].calls = <<"Get">>
             /\ ret'[i].err \in {NoError, ErrTransient}
             /\ ret'[i].err = NoError => ret'[i].state = storeRef.exists
             /\ ret'[i].err # NoError => ret'[i].state = FALSE
             /\ storeClaim' = storeClaim
             /\ claimExists' = claimExists
             /\ storeRef' = storeRef
             /\ adapter' = adapter
      ]_vars

\* the one invocation was answered (false, nil) before the reference was
\* created, the other (true, nil) after
C13_Witness ==
    /\ Finished(1, "ProjectReferenceExists")
    /\ ret[1].state = TRUE
    /\ ret[1].err = NoError
    /\ Finished(2, "ProjectReferenceExists")
    /\ ret[2].state = FALSE
    /\ ret[2].err = NoError
    /\ ret[2].calls = <<"Get">>
    /\ storeRef.exists

\* the adapter's last call was `op' with argument `arg' and returned nil
Succeeded(op, arg) == Finished(1, op) /\ ret[1].err = NoError /\ ret[1].arg = arg

\* this call issues no store call, reports no change and changes nothing
NoOp ==
    /\ ret'[1].calls = <<>>
    /\ ret'[1].state = ObjectUnchanged
    /\ ret'[1].err = NoError
    /\ storeClaim' = storeClaim
    /\ storeRef' = storeRef
    /\ adapter' = adapter

\* the second EnsureProjectReferenceExists: the reference is there, so the
\* call is its lookup and nothing else
NoCreate ==
    /\ ret'[1].calls = <<"Get">>
    /\ ret'[1].err = NoError
    /\ storeClaim' = storeClaim
    /\ storeRef' = storeRef
    /\ adapter' = adapter

\* the five operations that look before they write
RerunOfGuardedIsNoOp ==
    /\ (CallEnsureFinalizer(1) /\ Succeeded("EnsureFinalizer", "")) => NoOp
    /\ (CallEnsureProjectReferenceLink(1) /\ Succeeded("EnsureProjectReferenceLink", "")) => NoOp
    /\ (CallEnsureProjectClaimInitialized(1) /\ Succeeded("EnsureProjectClaimInitialized", "")) => NoOp
    /\ \A state \in RerunStatuses :
          (CallEnsureProjectClaimState(1, state) /\ Succeeded("EnsureProjectClaimState", state)) => NoOp
    /\ EnsureReferenceAct(1) =>
          /\ ret'[1].err = NoError => storeRef'.exists
          /\ storeRef.exists => NoCreate

\* C14 as stated: every mutating operation (EnsureFinalizer,
\* EnsureProjectReferenceLink, EnsureProjectClaimInitialized,
\* EnsureProjectClaimState, EnsureProjectReferenceExists,
\* SetProjectClaimCondition), called again with the same arguments right
\* after a call that succeeded, issues no store write and reports no change.
C14_RerunIsNoOp ==
    [][/\ RerunOfGuardedIsNoOp
       /\ \A status \in RerunConditionStatuses :
             (/\ CallSetProjectClaimCondition(1, status, "r1", "m1")
              /\ Succeeded("SetProjectClaimCondition", status)) =>
                 /\ ret'[1].calls = <<>>
                 /\ storeClaim' = storeClaim
      ]_vars

\* C14, amended: EnsureFinalizer, EnsureProjectReferenceLink,
\* EnsureProjectClaimInitialized, EnsureProjectClaimState and
\* EnsureProjectReferenceExists, called again with the same arguments right
\* after a call that succeeded, issue no store write and report no change
\* (the second EnsureProjectReferenceExists is its lookup alone);
\* SetProjectClaimCondition called again issues one status update every
\* time, which a store that accepts it records as a new version, and leaves
\* the entry's truth value, reason and message as they are.
C14_RerunIsNoOpExceptCondition ==
    [][/\ RerunOfGuardedIsNoOp
       /\ \A status \in RerunConditionStatuses :
             (/\ CallSetProjectClaimCondition(1, status, "r1", "m1")
              /\ Succeeded("SetProjectClaimCondition", status)) =>
                 /\ ret'[1].calls = <<"StatusUpdate">>
                 /\ ret'[1].err = NoError =>
                       storeClaim'.ResourceVersion = storeClaim.ResourceVersion + 1
                 /\ TrackedStatus(adapter'[1].projectClaim) = TrackedStatus(adapter[1].projectClaim)
                 /\ Len(adapter'[1].projectClaim.Conditions) = Len(adapter[1].projectClaim.Conditions)
      ]_vars

\* the one write the store saw set the link, and the call after it did nothing
C14_Witness ==
    /\ Finished(1, "EnsureProjectReferenceLink")
    /\ ret[1].calls = <<>>
    /\ ret[1].state = ObjectUnchanged
    /\ storeClaim.ResourceVersion = 1
    /\ storeClaim.ProjectReferenceCRLink =
          [Name |-> ClaimNamespace \o "-" \o ClaimName, Namespace |-> ProjectReferenceNamespace]
    /\ adapter[1].projectClaim = storeClaim

\* C15: the changed flag of a FinalizeProjectClaim that found the reference
\* absent.  It returns ObjectModified if and only if the finalizer removal
\* mutated the claim; with the tracked marker already absent from the claim
\* nothing is written and it returns ObjectUnchanged.
C15_ChangedFlagIffMutated ==
    [][\A i \in Invocations :
          (FinalizeAct(i) /\ ~projectReferenceExists[i] /\ ret'[i].err = NoError) =>
             /\ ret'[i].state = ObjectModified <=> storeClaim' # storeClaim
             /\ ~HasMarker(adapter[i].projectClaim) =>
                   /\ ret'[i].calls = <<"Get">>
                   /\ ret'[i].state = ObjectUnchanged
      ]_vars

\* C16: a Delete that fails in FinalizeProjectClaim.  Whatever the error,
\* NotFound included (the reference went between the lookup and the Delete),
\* the call returns (ObjectUnchanged, that error) right after the Delete: it
\* issues no Update and leaves the claim, its finalizers and the store as
\* they were.  A call whose lookup found a reference that has gone since
\* never returns nil.
C16_DeleteFailureReturned ==
    [][\A i \in Invocations :
          FinalizeAct(i) =>
             /\ (IssuedDelete(ret'[i]) /\ ret'[i].err # NoError) =>
                   /\ ret'[i].state = ObjectUnchanged
                   /\ ret'[i].calls = <<"Get", "Delete">>
                   /\ ret'[i].err \in {ErrNotFound, ErrTransient}
                   /\ ret'[i].err = ErrNotFound => ~storeRef.exists
                   /\ adapter'[i].projectClaim = adapter[i].projectClaim
                   /\ storeClaim' = storeClaim
                   /\ claimExists' = claimExists
                   /\ storeRef' = storeRef
             /\ (projectReferenceExists[i] /\ ~storeRef.exists) =>
                   /\ ret'[i].err \in {ErrNotFound, ErrTransient}
                   /\ IssuedDelete(ret'[i])
                   /\ HasMarker(storeClaim') = HasMarker(storeClaim)
      ]_vars

\* the reference went between the lookup and the Delete: the call returned
\* NotFound and the finalizer is still on the stored claim
C16_Witness ==
    \E i \in Invocations :
       /\ Finished(i, "FinalizeProjectClaim")
       /\ ret[i].calls = <<"Get", "Delete">>
       /\ ret[i].err = ErrNotFound
       /\ ret[i].state = ObjectUnchanged
       /\ HasMarker(storeClaim)
       /\ HasMarker(adapter[i].projectClaim)
       /\ ~storeRef.exists

\* C17: deletion is live.  With FinalizeProjectClaim invoked again and
\* again on fresh snapshots, the store completing a requested deletion of
\* the reference and store calls succeeding in the end, a stored claim whose
\* deletion was requested and that carries the finalizer loses the finalizer;
\* and no call waits for the reference to go: each is one lookup followed by
\* at most one Delete or one Update.
C17_FinalizerEventuallyRemoved ==
    /\ (storeClaim.DeletionTimestamp /\ HasMarker(storeClaim)) ~> ~HasMarker(storeClaim)
    /\ [][\A i \in Invocations :
             FinalizeAct(i) =>
                /\ ret'[i].calls \in {<<"Get">>, <<"Get", "Delete">>, <<"Get", "Update">>}
                /\ projectReferenceExists[i] =>
                      /\ pc'[i] = "idle"
                      /\ ret'[i].calls = <<"Get", "Delete">>
                      /\ ret'[i].state = ObjectUnchanged
         ]_vars

\* a call deleted the reference and returned; the call that found it gone
\* removed the finalizer, and the store has let the claim go
C17_Witness ==
    \E i \in Invocations :
       /\ Finished(i, "FinalizeProjectClaim")
       /\ ret[i].calls = <<"Get", "Update">>
       /\ ret[i].err = NoError
       /\ storeClaim.DeletionTimestamp
       /\ storeClaim.Finalizers = <<>>
       /\ ~claimExists
       /\ ~storeRef.exists

\* the identity of the reference derived from the claim
DerivedIdentity(c) ==
    [Name |-> c.Namespace \o "-" \o c.Name, Namespace |-> ProjectReferenceNamespace]

\* C18: EnsureProjectReferenceLink reconciles the link.  After a call that
\* returns no error the claim's link is the derived reference identity,
\* whatever it was before (empty, or wrong and non-empty); a link that
\* differed costs exactly one Update and returns ObjectModified; a link that
\* matched costs no write and returns ObjectUnchanged; and a failed Update
\* is returned as (ObjectUnchanged, err).
C18_LinkReconciled ==
    [][CallEnsureProjectReferenceLink(1) =>
          LET c == adapter[1].projectClaim
              d == adapter'[1].projectClaim
          IN /\ ret'[1].err = NoError => d.ProjectReferenceCRLink = DerivedIdentity(c)
             /\ (c.ProjectReferenceCRLink # DerivedIdentity(c) /\ ret'[1].err = NoError) =>
                   /\ ret'[1].state = ObjectModified
                   /\ ret'[1].calls = <<"Update">>
                   /\ storeClaim'.ProjectReferenceCRLink = DerivedIdentity(c)
                   /\ storeClaim'.ResourceVersion = storeClaim.ResourceVersion + 1
             /\ c.ProjectReferenceCRLink = DerivedIdentity(c) =>
                   /\ ret'[1].state = ObjectUnchanged
                   /\ ret'[1].err = NoError
                   /\ ret'[1].calls = <<>>
                   /\ storeClaim' = storeClaim
             /\ ret'[1].err # NoError =>
                   /\ ret'[1].state = ObjectUnchanged
                   /\ ret'[1].calls = <<"Update">>
                   /\ storeClaim' = storeClaim
      ]_vars

\* a link that differed was written once: the store holds the derived
\* identity and the call reported the change
C18_Witness ==
    /\ Finished(1, "EnsureProjectReferenceLink")
    /\ ret[1].state = ObjectModified
    /\ ret[1].calls = <<"Update">>
    /\ storeClaim.ProjectReferenceCRLink = DerivedIdentity(storeClaim)
    /\ storeClaim.ProjectReferenceCRLink # [Name |-> "wrong", Namespace |-> ProjectReferenceNamespace]
    /\ adapter[1].projectClaim = storeClaim
    /\ storeClaim.ResourceVersion = 1

\* C19: whenever EnsureFinalizer returns a nil error, with ObjectModified or
\* with ObjectUnchanged, the claim persisted in the store carries the
\* tracked marker; also when the call is a retry on the same adapter after a
\* call whose Update the store refused.
C19_NilMeansMarkerPersisted ==
    [][(CallEnsureFinalizer(1) /\ ret'[1].err = NoError) => HasMarker(storeClaim')]_vars

\* the entry of the listed name at place k, as the directory held it
Listed(k) == CHOOSE e \in Catalog : e.name = versions[k]

\* the places of the version directories whose short hash begins the deployed hash
DeployedAt ==
    {k \in 1..Len(versions) :
        /\ Listed(k).directory
        /\ \E rest \in {SubSeq(DEPLOYED_HASH, j, Len(DEPLOYED_HASH)) : j \in 1..(Len(DEPLOYED_HASH) + 1)} :
              short_hash(versions[k]) \o rest = DEPLOYED_HASH}

\* the version directories listed after the first of them
AfterDeployed ==
    IF DeployedAt = {} THEN {}
    ELSE {Listed(k) : k \in {j \in 1..Len(versions) :
                                /\ Listed(j).directory
                                /\ \E d \in DeployedAt : \A o \in DeployedAt : d <= o /\ d < j}}

\* C20: with REMOVE_UNDEPLOYED=true the script goes through the entries in
\* the order of their commit numbers and removes exactly the version
\* directories that come strictly after the first version directory whose
\* short hash is a prefix of the deployed hash: that version and the earlier
\* ones stay, entries that are no directories stay, and with no version
\* matching nothing is removed.
C20_RemovesVersionsAfterDeployed ==
    (line = "generate" /\ REMOVE_UNDEPLOYED = "true") =>
       /\ \A j, k \in 1..Len(versions) :
             (j < k /\ SortKey(versions[j]) # <<>> /\ SortKey(versions[k]) # <<>>) =>
                SortKey(versions[j])[1] <= SortKey(versions[k])[1]
       /\ BUNDLE_DIR = {Listed(k) : k \in 1..Len(versions)} \ AfterDeployed
       /\ {REMOVED_VERSIONS[k] : k \in 1..Len(REMOVED_VERSIONS)} = {e.name : e \in AfterDeployed}
       /\ Len(REMOVED_VERSIONS) = Cardinality(AfterDeployed)
       /\ \A e \in Catalog : (~e.directory /\ \E k \in 1..Len(versions) : versions[k] = e.name) =>
             e \in BUNDLE_DIR
       /\ DeployedAt = {} => REMOVED_VERSIONS = <<>>

\* of 0.1.2-shabb, 0.1.10-b and the file 0.1.4-bb, with bba deployed, the
\* version of commit 10 went; the deployed one and the file stayed
C20_Witness ==
    /\ line = "generate"
    /\ REMOVE_UNDEPLOYED = "true"
    /\ DEPLOYED_HASH = <<"b", "b", "a">>
    /\ versions = << <<"0", ".", "1", ".", "2", "-", "s", "h", "a", "b", "b">>,
                     <<"0", ".", "1", ".", "4", "-", "b", "b">>,
                     <<"0", ".", "1", ".", "1", "0", "-", "b">> >>
    /\ REMOVED_VERSIONS = << <<"0", ".", "1", ".", "1", "0", "-", "b">> >>
    /\ BUNDLE_DIR = {Entry(<<"0", ".", "1", ".", "2", "-", "s", "h", "a", "b", "b">>, TRUE),
                     Entry(<<"0", ".", "1", ".", "4", "-", "b", "b">>, FALSE)}

====
